---- MODULE Spec2Model ----
(***************************************************************************)
(* Model of src/main.py: the value coercer parse_value, the batch handler  *)
(* App.process_csv with App.validate_headers, the manual handler           *)
(* App.on_run_single, App.on_function_change and App.normalize_results.    *)
(*                                                                         *)
(* Text is a sequence of one-character strings.  A pandas cell is either   *)
(* NaN or the text str() gives for it.  Python values are records tagged   *)
(* by kind.  A DataFrame is a record of its column names and its rows.     *)
(***************************************************************************)
EXTENDS Integers, Sequences, FiniteSets, TLC

\* ---------------------------------------------------------------- bounds
\* longest raw text enumerated for parse_value
MaxLen == 3
\* most rows of an input table
MaxRows == 2
\* longest result sequence enumerated for normalize_results
MaxResults == 3

\* ---------------------------------------------------------------- values
None == [kind |-> "none"]
IntV(n) == [kind |-> "int", n |-> n]
\* a float is m * 10^e, m not divisible by 10 unless it is 0
FloatV(m, e) == [kind |-> "float", m |-> m, e |-> e]
BoolV(b) == [kind |-> "bool", b |-> b]
StrV(s) == [kind |-> "str", s |-> s]

\* ---------------------------------------------------------------- text
\* the characters raw texts are enumerated over
Alphabet == {" ", "0", "1", "-", ".", "e", "E", "t", "x"}

\* words the coercer treats specially, and padded or longer literals
Words ==
  { <<"t","r","u","e">>, <<"T","r","u","e">>, <<"f","a","l","s","e">>,
    <<"y","e","s">>, <<"n","o">>, <<"y">>, <<"n">>, <<"f">>,
    <<" ","t","r","u","e">>, <<" ","x"," ","x"," ">>,
    <<"1",".","5","e","1">>, <<"-","1","0">> }

RECURSIVE SeqsUpTo(_, _)
SeqsUpTo(S, n) ==
  IF n = 0 THEN {<<>>}
  ELSE LET shorter == SeqsUpTo(S, n - 1)
       IN shorter \cup {Append(s, c) : s \in {t \in shorter : Len(t) = n - 1}, c \in S}

Texts == SeqsUpTo(Alphabet, MaxLen) \cup Words

\* the raw value None (a NaN cell)
NoText == <<"NaN">>

Lower(c) ==
  CASE c = "E" -> "e"
    [] c = "T" -> "t"
    [] OTHER -> c

lower(s) == [i \in 1..Len(s) |-> Lower(s[i])]

IsSpace(c) == c = " "

RECURSIVE lstrip(_)
lstrip(s) == IF s # <<>> /\ IsSpace(Head(s)) THEN lstrip(Tail(s)) ELSE s

RECURSIVE rstrip(_)
rstrip(s) ==
  IF s # <<>> /\ IsSpace(s[Len(s)]) THEN rstrip(SubSeq(s, 1, Len(s) - 1)) ELSE s

\* str.strip()
strip(s) == rstrip(lstrip(s))

Contains(s, c) == \E i \in 1..Len(s) : s[i] = c

\* index of the first character of s in set C, 0 when there is none
FirstIn(s, C) ==
  IF \E i \in 1..Len(s) : s[i] \in C
  THEN CHOOSE i \in 1..Len(s) : s[i] \in C /\ \A j \in 1..(i - 1) : s[j] \notin C
  ELSE 0

DigitVal(c) ==
  CASE c = "0" -> 0 [] c = "1" -> 1 [] c = "2" -> 2 [] c = "3" -> 3
    [] c = "4" -> 4 [] c = "5" -> 5 [] c = "6" -> 6 [] c = "7" -> 7
    [] c = "8" -> 8 [] c = "9" -> 9

IsDigit(c) == c \in {"0", "1", "2", "3", "4", "5", "6", "7", "8", "9"}

AllDigits(s) == \A i \in 1..Len(s) : IsDigit(s[i])

RECURSIVE DigitsVal(_)
DigitsVal(s) ==
  IF s = <<>> THEN 0
  ELSE DigitsVal(SubSeq(s, 1, Len(s) - 1)) * 10 + DigitVal(s[Len(s)])

HasSign(s) == s # <<>> /\ Head(s) \in {"+", "-"}
Unsigned(s) == IF HasSign(s) THEN Tail(s) ELSE s
SignOf(s) == IF s # <<>> /\ Head(s) = "-" THEN -1 ELSE 1

\* int(s) does not raise
IntParses(s) == Unsigned(s) # <<>> /\ AllDigits(Unsigned(s))

\* int(s)
IntOf(s) == SignOf(s) * DigitsVal(Unsigned(s))

\* the parts of a float literal: mantissa text and exponent text
MantText(s) ==
  LET u == Unsigned(s)
      k == FirstIn(u, {"e", "E"})
  IN IF k = 0 THEN u ELSE SubSeq(u, 1, k - 1)

HasExp(s) == FirstIn(Unsigned(s), {"e", "E"}) # 0

ExpText(s) ==
  LET u == Unsigned(s)
      k == FirstIn(u, {"e", "E"})
  IN SubSeq(u, k + 1, Len(u))

IntPart(m) ==
  LET k == FirstIn(m, {"."}) IN IF k = 0 THEN m ELSE SubSeq(m, 1, k - 1)

FracPart(m) ==
  LET k == FirstIn(m, {"."}) IN IF k = 0 THEN <<>> ELSE SubSeq(m, k + 1, Len(m))

\* float(s) does not raise
FloatParses(s) ==
  LET m == MantText(s)
  IN /\ AllDigits(IntPart(m))
     /\ AllDigits(FracPart(m))
     /\ IntPart(m) \o FracPart(m) # <<>>
     /\ HasExp(s) => IntParses(ExpText(s))

RECURSIVE Normal(_, _)
Normal(m, e) ==
  IF m = 0 THEN FloatV(0, 0)
  ELSE IF m % 10 = 0 THEN Normal(m \div 10, e + 1)
  ELSE FloatV(m, e)

\* float(s)
FloatOf(s) ==
  LET m == MantText(s)
      x == IF HasExp(s) THEN IntOf(ExpText(s)) ELSE 0
      mag == DigitsVal(IntPart(m) \o FracPart(m))
  IN IF SignOf(s) = 1 THEN Normal(mag, x - Len(FracPart(m)))
     ELSE LET p == Normal(mag, x - Len(FracPart(m))) IN FloatV(0 - p.m, p.e)

\* ---------------------------------------------------------------- parse_value
Annotations == {"empty", "int", "float", "bool", "str"}

Truthy == { <<"1">>, <<"t","r","u","e">>, <<"y","e","s">>, <<"y">>, <<"t">> }
Falsy == { <<"0">>, <<"f","a","l","s","e">>, <<"n","o">>, <<"n">>, <<"f">> }

\* lines 79-88: the untyped heuristics
Heuristics(s) ==
  LET low == lower(s)
  IN IF low \in { <<"t","r","u","e">>, <<"f","a","l","s","e">> }
     THEN [value |-> BoolV(low = <<"t","r","u","e">>), path |-> "heuristic_bool"]
     ELSE IF Contains(s, ".") \/ Contains(low, "e")
          THEN IF FloatParses(s)
               THEN [value |-> FloatOf(s), path |-> "heuristic_num"]
               ELSE [value |-> StrV(s), path |-> "heuristic_str"]
          ELSE IF IntParses(s)
               THEN [value |-> IntV(IntOf(s)), path |-> "heuristic_num"]
               ELSE [value |-> StrV(s), path |-> "heuristic_str"]

\* parse_value returning the text when the declared int or float does not parse
parse_value_strict(text, annotation) ==
  IF text = NoText THEN [value |-> None, path |-> "null"]
  ELSE LET s == strip(text)
       IN IF s = <<>> THEN [value |-> None, path |-> "blank"]
          ELSE IF annotation = "int"
               THEN IF IntParses(s) THEN [value |-> IntV(IntOf(s)), path |-> "declared"]
                    ELSE [value |-> StrV(s), path |-> "heuristic_str"]
          ELSE IF annotation = "float"
               THEN IF FloatParses(s) THEN [value |-> FloatOf(s), path |-> "declared"]
                    ELSE [value |-> StrV(s), path |-> "heuristic_str"]
          ELSE IF annotation = "bool"
               THEN [value |-> BoolV(lower(s) \notin Falsy), path |-> "declared"]
          ELSE IF annotation = "str"
               THEN [value |-> StrV(s), path |-> "declared"]
          ELSE Heuristics(s)

\* parse_value without the test for a blank text of lines 58-59
parse_value_noblank(text, annotation) ==
  IF text = NoText THEN [value |-> None, path |-> "null"]
  ELSE LET s == strip(text)
       IN IF annotation = "int" /\ IntParses(s)
               THEN [value |-> IntV(IntOf(s)), path |-> "declared"]
          ELSE IF annotation = "float" /\ FloatParses(s)
               THEN [value |-> FloatOf(s), path |-> "declared"]
          ELSE IF annotation = "bool"
               THEN [value |-> BoolV(s # <<>> /\ lower(s) \notin Falsy), path |-> "declared"]
          ELSE IF annotation = "str"
               THEN [value |-> StrV(s), path |-> "declared"]
          ELSE Heuristics(s)

\* parse_value(text, annotation): the value returned and the return
\* statement that produced it.  A raise of int(s) or float(s) inside the
\* first try block is swallowed and control continues with the heuristics.
parse_value(text, annotation) ==
  IF text = NoText THEN [value |-> None, path |-> "null"]
  ELSE LET s == strip(text)
       IN IF s = <<>> THEN [value |-> None, path |-> "blank"]
          ELSE IF annotation = "int" /\ IntParses(s)
               THEN [value |-> IntV(IntOf(s)), path |-> "declared"]
          ELSE IF annotation = "float" /\ FloatParses(s)
               THEN [value |-> FloatOf(s), path |-> "declared"]
          ELSE IF annotation = "bool"
               THEN IF lower(s) \in Truthy
                    THEN [value |-> BoolV(TRUE), path |-> "declared"]
                    ELSE IF lower(s) \in Falsy
                         THEN [value |-> BoolV(FALSE), path |-> "declared"]
                         ELSE [value |-> BoolV(s # <<>>), path |-> "declared"]
          ELSE IF annotation = "str"
               THEN [value |-> StrV(s), path |-> "declared"]
          ELSE Heuristics(s)

\* ---------------------------------------------------------------- pandas
\* a DataFrame: column names and rows, each row aligned with the columns
Frame(cols, rows) == [cols |-> cols, rows |-> rows]

\* pd.DataFrame()
EmptyFrame == Frame(<<>>, <<>>)

\* the outcome of a pandas call that raised
Raised == [raised |-> TRUE]

Max(a, b) == IF a >= b THEN a ELSE b

IndexOfName(seq, x) == CHOOSE i \in 1..Len(seq) : seq[i] = x

InSeq(seq, x) == \E i \in 1..Len(seq) : seq[i] = x

RECURSIVE UnionCols(_)
\* the columns of a row-wise union, in order of first appearance
UnionCols(colseqs) ==
  IF colseqs = <<>> THEN <<>>
  ELSE LET before == UnionCols(SubSeq(colseqs, 1, Len(colseqs) - 1))
           last == colseqs[Len(colseqs)]
       IN before \o SelectSeq(last, LAMBDA c : ~InSeq(before, c))

\* one row of frame f at index i, laid out over columns cols, None where absent
Reindex(f, i, cols) ==
  [j \in 1..Len(cols) |->
     IF InSeq(f.cols, cols[j]) THEN f.rows[i][IndexOfName(f.cols, cols[j])] ELSE None]

RECURSIVE StackRows(_, _)
StackRows(frames, cols) ==
  IF frames = <<>> THEN <<>>
  ELSE [i \in 1..Len(frames[1].rows) |-> Reindex(frames[1], i, cols)]
       \o StackRows(Tail(frames), cols)

\* pd.concat(objs, ignore_index=True): None objects are dropped silently,
\* an object that is no pandas object raises TypeError
ConcatRows(objs) ==
  IF \E i \in 1..Len(objs) : objs[i].kind \notin {"frame", "none"} THEN Raised
  ELSE LET frames == SelectSeq(objs, LAMBDA o : o.kind = "frame")
           cols == UnionCols([i \in 1..Len(frames) |-> frames[i].cols])
       IN Frame(cols, StackRows(frames, cols))

\* pd.DataFrame(list of mappings): one row per mapping, columns the union of
\* the keys; an element without keys() raises AttributeError
FrameOfMappings(objs) ==
  IF \E i \in 1..Len(objs) : objs[i].kind \notin {"dict", "series"} THEN Raised
  ELSE LET cols == UnionCols([i \in 1..Len(objs) |-> objs[i].keys])
       IN Frame(cols,
                [i \in 1..Len(objs) |->
                   [j \in 1..Len(cols) |->
                      IF InSeq(objs[i].keys, cols[j])
                      THEN objs[i].vals[IndexOfName(objs[i].keys, cols[j])]
                      ELSE None]])

\* pd.concat([left, right], axis=1) of two frames with a default index: the
\* rows are aligned by position, a side that has no such row gives None
ConcatCols(left, right) ==
  LET n == Max(Len(left.rows), Len(right.rows))
      side(f, i) == IF i <= Len(f.rows) THEN f.rows[i]
                    ELSE [j \in 1..Len(f.cols) |-> None]
  IN Frame(left.cols \o right.cols, [i \in 1..n |-> side(left, i) \o side(right, i)])

\* ---------------------------------------------------------------- results
Tuple(items) == [kind |-> "tuple", items |-> items]
Dict(keys, vals) == [kind |-> "dict", keys |-> keys, vals |-> vals]
FrameV(cols, rows) == [kind |-> "frame", cols |-> cols, rows |-> rows]

IsSequence(r) == r.kind = "tuple"

\* len(r) if isinstance(r, (list, tuple)) else 1
SeqLen(r) == IF IsSequence(r) THEN Len(r.items) ELSE 1

\* [None] * k
Nones(k) == [j \in 1..Max(k, 0) |-> None]

RECURSIVE MaxSeqLen(_)
\* max(len(r) if isinstance(r, (list, tuple)) else 1 for r in results)
MaxSeqLen(results) ==
  IF Len(results) = 1 THEN SeqLen(results[1])
  ELSE Max(SeqLen(results[1]), MaxSeqLen(Tail(results)))

\* f"result_{i}" for the indices the enumerated tuples can reach
ResultNames == <<"result_0", "result_1", "result_2", "result_3">>

\* [f"result_{i}" for i in range(n)]
ResultCols(n) == SubSeq(ResultNames, 1, n)

\* normalize_results chooses by the shape of results[0]
StrategyOf(results) ==
  IF results = <<>> THEN "empty"
  ELSE LET first == results[1]
       IN IF first.kind = "frame" THEN "tabular"
          ELSE IF first.kind = "series" THEN "series"
          ELSE IF first.kind = "dict" THEN "mapping"
          ELSE IF IsSequence(first) THEN "sequence"
          ELSE "scalar"

\* normalize_results with line 437 leaving a shorter sequence unpadded
normalize_results_nopad(results) ==
  LET strategy == StrategyOf(results)
  IN IF strategy = "empty" THEN EmptyFrame
     ELSE IF strategy = "tabular" THEN ConcatRows(results)
     ELSE IF strategy \in {"series", "mapping"} THEN FrameOfMappings(results)
     ELSE IF strategy = "sequence"
     THEN LET max_len == MaxSeqLen(results)
          IN Frame(ResultCols(max_len),
                   [i \in 1..Len(results) |->
                      IF IsSequence(results[i])
                      THEN results[i].items
                      ELSE <<results[i]>> \o Nones(max_len - 1)])
     ELSE Frame(<<"result">>, [i \in 1..Len(results) |-> <<results[i]>>])

normalize_results(results) ==
  LET strategy == StrategyOf(results)
  IN IF strategy = "empty" THEN EmptyFrame
     ELSE IF strategy = "tabular" THEN ConcatRows(results)
     ELSE IF strategy \in {"series", "mapping"} THEN FrameOfMappings(results)
     ELSE IF strategy = "sequence"
     THEN LET max_len == MaxSeqLen(results)
          IN Frame(ResultCols(max_len),
                   [i \in 1..Len(results) |->
                      IF IsSequence(results[i])
                      THEN results[i].items \o Nones(max_len - Len(results[i].items))
                      ELSE <<results[i]>> \o Nones(max_len - 1)])
     ELSE Frame(<<"result">>, [i \in 1..Len(results) |-> <<results[i]>>])

\* ---------------------------------------------------------------- signatures
\* one inspect.Parameter: required means p.default is inspect._empty
Param(name, ann, required, default) ==
  [name |-> name, annotation |-> ann, required |-> required, default |-> default]

TARGET_FUNCTIONS == {"PET", "PMV", "SET", "UTCI"}

\* the functions the installed library offers; the others are not found
Available == {"PET", "PMV", "SET"}

\* inspect.signature(fn) for the functions of the library
Signature(fn_name) ==
  CASE fn_name = "PET" ->
         << Param("a", "int", TRUE, None), Param("b", "empty", FALSE, IntV(5)) >>
    [] fn_name = "PMV" ->
         << Param("a", "empty", TRUE, None), Param("b", "float", TRUE, None) >>
    [] fn_name = "SET" ->
         << Param("self", "empty", TRUE, None), Param("a", "bool", FALSE, BoolV(FALSE)) >>
    [] OTHER -> <<>>

\* get_callable(name) is not None
get_callable(fn_name) == fn_name \in Available

IsImplicit(name) == name \in {"self", "cls"}

\* the parameters a handler binds: all but self and cls
Bindable(sig) == SelectSeq(sig, LAMBDA p : ~IsImplicit(p.name))

\* alphabetical order of the names in use, for sorted()
NameOrder == <<"a", "b", "c", "cls", "self">>

Sorted(S) == SelectSeq(NameOrder, LAMBDA n : n \in S)

SeqToSet(seq) == {seq[i] : i \in 1..Len(seq)}

RequiredNames(sig) ==
  {sig[i].name : i \in {j \in 1..Len(sig) : ~IsImplicit(sig[j].name) /\ sig[j].required}}

\* validate_headers reporting only the first missing name
validate_headers_first(frame, sig) ==
  LET missing == Sorted(RequiredNames(sig) \ SeqToSet(frame.cols))
  IN IF missing = <<>> THEN <<>> ELSE <<Head(missing)>>

\* validate_headers(df, sig): the sorted missing names, <<>> when it returns None
validate_headers(frame, sig) == Sorted(RequiredNames(sig) \ SeqToSet(frame.cols))

\* the required names in signature order, for the "Expected at least" line
ExpectedAtLeast(sig) ==
  LET req == SelectSeq(sig, LAMBDA p : ~IsImplicit(p.name) /\ p.required)
  IN [i \in 1..Len(req) |-> req[i].name]

\* ---------------------------------------------------------------- binding
Arg(name, value) == [name |-> name, value |-> value]

HasArg(kwargs, name) == \E i \in 1..Len(kwargs) : kwargs[i].name = name

ArgOf(kwargs, name) == kwargs[CHOOSE i \in 1..Len(kwargs) : kwargs[i].name = name].value

CellOf(frame, i, name) == frame.rows[i][IndexOfName(frame.cols, name)]

RECURSIVE bind_row(_, _, _)
\* lines 322-337 for row i of the table: the kwargs, or the abort of line 334
bind_row(params, frame, i) ==
  IF params = <<>> THEN [ok |-> TRUE, kwargs |-> <<>>, missing |-> ""]
  ELSE LET p == Head(params)
           rest == bind_row(Tail(params), frame, i)
       IN IF IsImplicit(p.name) THEN rest
          ELSE IF InSeq(frame.cols, p.name)
          THEN IF ~rest.ok THEN rest
               ELSE [rest EXCEPT !.kwargs =
                  <<Arg(p.name, parse_value(CellOf(frame, i, p.name), p.annotation).value)>>
                  \o rest.kwargs]
          ELSE IF p.required
          THEN [ok |-> FALSE, kwargs |-> <<>>, missing |-> p.name]
          ELSE IF ~rest.ok THEN rest
          ELSE [rest EXCEPT !.kwargs = <<Arg(p.name, p.default)>> \o rest.kwargs]

\* the form widget on_function_change builds for a parameter
IsCheckbox(p) == p.annotation = "bool" \/ p.default.kind = "bool"

RECURSIVE bind_form(_, _, _)
\* lines 371-399: entries maps the name of each entry to its text, checks the
\* name of each checkbox to its state; the kwargs, or the name of the empty
\* required field
bind_form(params, entries, checks) ==
  IF params = <<>> THEN [ok |-> TRUE, kwargs |-> <<>>, missing |-> ""]
  ELSE LET p == Head(params)
           rest == bind_form(Tail(params), entries, checks)
       IN IF IsImplicit(p.name) THEN rest
          ELSE IF IsCheckbox(p)
          THEN IF ~rest.ok THEN rest
               ELSE [rest EXCEPT !.kwargs = <<Arg(p.name, BoolV(checks[p.name]))>> \o rest.kwargs]
          ELSE LET txt == strip(entries[p.name])
                   val == parse_value(txt, p.annotation).value
               IN IF (txt = <<>> \/ val = None) /\ p.required
                  THEN [ok |-> FALSE, kwargs |-> <<>>, missing |-> p.name]
                  ELSE IF ~rest.ok THEN rest
                  ELSE [rest EXCEPT !.kwargs =
                          <<Arg(p.name, IF txt = <<>> /\ ~p.required THEN p.default ELSE val)>>
                          \o rest.kwargs]

\* ---------------------------------------------------------------- inputs
\* the cells read_csv gives: NaN for an empty field, else the text of the
\* value (a number beside a NaN in its column is read as a float)
Cells == {NoText, <<"1", ".", "0">>}

\* the header lines of the files offered
Headers == { <<"a">>, <<"b">>, <<"a", "b">>, <<"c">> }

RowsOver(cols) == UNION {[1..n -> [1..Len(cols) -> Cells]] : n \in 0..MaxRows}

\* what pd.read_csv(path) returns
Tables == UNION {{Frame(cols, rows) : rows \in RowsOver(cols)} : cols \in Headers}

\* what the user types into an entry of the form
EntryTexts == { <<>>, <<"1">>, <<" ">> }

\* what a call of the target function does: raise, or return a value
Raise == [raised |-> TRUE, value |-> None]
Return(v) == [raised |-> FALSE, value |-> v]
Outcomes == {Raise, Return(IntV(7)), Return(Tuple(<<IntV(1), IntV(2)>>))}

\* fn(**kwargs) raises TypeError when a required parameter is not passed
CallOutcomes(sig, kwargs) ==
  IF \E i \in 1..Len(sig) : sig[i].required /\ ~HasArg(kwargs, sig[i].name)
  THEN {Raise}
  ELSE Outcomes

\* the values a result sequence is enumerated over
ResultValues ==
  { None, IntV(7),
    Tuple(<<IntV(1)>>), Tuple(<<IntV(3)>>), Tuple(<<IntV(1), IntV(2)>>),
    Dict(<<"k1">>, <<IntV(1)>>), Dict(<<"k2", "k1">>, <<IntV(2), IntV(1)>>),
    FrameV(<<"k1">>, <<>>), FrameV(<<"k1">>, <<(<<IntV(1)>>)>>),
    FrameV(<<"k1">>, <<(<<IntV(1)>>), (<<IntV(2)>>)>>) }

\* a frame among the results of a strategy other than the tabular one is
\* left out: what pandas makes of a frame as a cell value is not modelled
ResultSeqs ==
  { r \in UNION {[1..n -> ResultValues] : n \in 0..MaxResults} :
      \A i \in 2..Len(r) : r[i].kind = "frame" => r[1].kind = "frame" }

\* ---------------------------------------------------------------- state
VARIABLES
  text, annotation, parsed,      \* parse_value: arguments and return value
  norm_in, norm_out,             \* normalize_results: argument and return value
  fn_var,                        \* the selected function name
  status_var,                    \* the status line
  current_output_df,             \* the stored output table, None before any
  dialog,                        \* the messagebox the running handler showed
  stderr,                        \* the lines printed to sys.stderr
  pc,                            \* where process_csv stands
  df, sig,                       \* process_csv: the table read, the signature
  rows_args, results, errors,    \* process_csv: its three lists
  trace,                         \* the bind and invoke steps of the batch
  returned,                      \* what each call of the batch did
  manual                         \* on_run_single: form read and kwargs bound

parse_vars == <<text, annotation, parsed>>
norm_vars == <<norm_in, norm_out>>
app_vars == <<fn_var, status_var, current_output_df, dialog, stderr, pc, df, sig,
              rows_args, results, errors, trace, returned, manual>>
vars == <<text, annotation, parsed, norm_in, norm_out, fn_var, status_var,
          current_output_df, dialog, stderr, pc, df, sig, rows_args, results,
          errors, trace, returned, manual>>

Pending == [path |-> "pending"]
\* a messagebox.showerror call: its title, the fixed part of its message and
\* the names the message lists
NoDialog == [title |-> "none", text |-> "", names |-> <<>>, expected |-> <<>>]
Dialog(title, msg, names, expected) ==
  [title |-> title, text |-> msg, names |-> names, expected |-> expected]
Status(s, n) == [text |-> s, n |-> n]
NoManual == [ran |-> FALSE]

AppIdle ==
  /\ fn_var = "PET"
  /\ status_var = Status("Ready", 0)
  /\ current_output_df = None
  /\ dialog = NoDialog
  /\ stderr = <<>>
  /\ pc = "idle"
  /\ df = EmptyFrame
  /\ sig = <<>>
  /\ rows_args = <<>>
  /\ results = <<>>
  /\ errors = <<>>
  /\ trace = <<>>
  /\ returned = <<>>
  /\ manual = NoManual

ParseIdle == text = NoText /\ annotation = "empty" /\ parsed = Pending
NormIdle == norm_in = <<>> /\ norm_out = Pending

\* ---------------------------------------------------------------- parse_value
InitParse ==
  /\ text \in Texts \cup {NoText}
  /\ annotation \in Annotations
  /\ parsed = Pending
  /\ NormIdle
  /\ AppIdle

Parse ==
  /\ parsed = Pending
  /\ parsed' = parse_value(text, annotation)
  /\ UNCHANGED <<text, annotation, norm_vars, app_vars>>

NextParse == Parse

SpecParse == InitParse /\ [][NextParse]_vars

\* ---------------------------------------------------------------- normalize_results
InitNorm ==
  /\ norm_in \in ResultSeqs
  /\ norm_out = Pending
  /\ ParseIdle
  /\ AppIdle

Normalize ==
  /\ norm_out = Pending
  /\ norm_out' = normalize_results(norm_in)
  /\ UNCHANGED <<norm_in, parse_vars, app_vars>>

NextNorm == Normalize

SpecNorm == InitNorm /\ [][NextNorm]_vars

\* ---------------------------------------------------------------- handlers
\* pd.read_csv(path) raised
Unreadable == [unreadable |-> TRUE]

NoBatch ==
  /\ df' = EmptyFrame
  /\ sig' = <<>>
  /\ rows_args' = <<>>
  /\ results' = <<>>
  /\ errors' = <<>>
  /\ trace' = <<>>
  /\ returned' = <<>>

\* no handler is running and no batch has run to its end: a session is
\* followed up to the end of its first batch that passes the header check
AtRest == pc = "idle"

EntryNames(fn_name) ==
  LET b == Bindable(Signature(fn_name))
  IN {b[i].name : i \in {j \in 1..Len(b) : ~IsCheckbox(b[j])}}

CheckNames(fn_name) ==
  LET b == Bindable(Signature(fn_name))
  IN {b[i].name : i \in {j \in 1..Len(b) : IsCheckbox(b[j])}}

\* on_function_change(fn_name), called by the combo box after it set fn_var
on_function_change(fn_name) ==
  /\ AtRest
  /\ fn_var' = fn_name
  /\ status_var' = IF get_callable(fn_name) THEN status_var
                   ELSE Status("Function not found", 0)
  /\ dialog' = NoDialog
  /\ manual' = NoManual
  /\ pc' = "idle"
  /\ NoBatch
  /\ UNCHANGED <<current_output_df, stderr, parse_vars, norm_vars>>

\* on_run_single() with the form filled in as entries and checks, the call
\* of the target function doing o
on_run_single(entries, checks, o) ==
  LET b == bind_form(Signature(fn_var), entries, checks)
      out_df == normalize_results(<<o.value>>)
      failed == o.raised \/ out_df = Raised
  IN /\ AtRest
     /\ get_callable(fn_var)
     /\ o \in (IF b.ok THEN CallOutcomes(Signature(fn_var), b.kwargs) ELSE {Raise})
     /\ manual' = [ran |-> TRUE, entries |-> entries, checks |-> checks,
                   ok |-> b.ok, kwargs |-> b.kwargs]
     /\ dialog' = IF ~b.ok THEN Dialog("Missing input", "Required field is empty", <<b.missing>>, <<>>)
                  ELSE IF failed THEN Dialog("Execution error", "traceback", <<>>, <<>>)
                  ELSE NoDialog
     /\ status_var' = IF ~b.ok THEN status_var
                      ELSE IF failed THEN Status("Error", 0)
                      ELSE Status("Completed", 0)
     /\ current_output_df' = IF b.ok /\ ~failed THEN out_df ELSE current_output_df
     /\ pc' = "idle"
     /\ NoBatch
     /\ UNCHANGED <<fn_var, stderr, parse_vars, norm_vars>>

\* on_run_single() while the selected function is not found
on_run_single_not_found ==
  /\ AtRest
  /\ ~get_callable(fn_var)
  /\ dialog' = Dialog("Error", "Function not found", <<fn_var>>, <<>>)
  /\ manual' = NoManual
  /\ pc' = "idle"
  /\ NoBatch
  /\ UNCHANGED <<fn_var, status_var, current_output_df, stderr,
                 parse_vars, norm_vars>>

OnRunSingle ==
  \/ \E entries \in [EntryNames(fn_var) -> EntryTexts],
        checks \in [CheckNames(fn_var) -> BOOLEAN],
        o \in Outcomes : on_run_single(entries, checks, o)
  \/ on_run_single_not_found

\* process_csv(path), lines 303-317, read_csv giving csv: up to the end of
\* header validation
process_csv_start(csv) ==
  LET s == Signature(fn_var)
      err == validate_headers(csv, s)
  IN /\ AtRest
     /\ manual' = NoManual
     /\ rows_args' = <<>>
     /\ results' = <<>>
     /\ errors' = <<>>
     /\ trace' = <<>>
     /\ returned' = <<>>
     /\ IF ~get_callable(fn_var)
        THEN /\ dialog' = Dialog("Error", "Function not found", <<fn_var>>, <<>>)
             /\ df' = EmptyFrame
             /\ sig' = <<>>
             /\ pc' = "idle"
        ELSE IF csv = Unreadable
        THEN /\ dialog' = Dialog("CSV Error", "Failed to read CSV", <<>>, <<>>)
             /\ df' = EmptyFrame
             /\ sig' = <<>>
             /\ pc' = "idle"
        ELSE /\ df' = csv
             /\ sig' = s
             /\ IF err # <<>>
                THEN /\ dialog' = Dialog("Header mismatch", "Missing required columns", err, ExpectedAtLeast(s))
                     /\ pc' = "idle"
                ELSE /\ dialog' = NoDialog
                     /\ pc' = IF csv.rows = <<>> THEN "finish" ELSE "bind"
     /\ UNCHANGED <<fn_var, status_var, current_output_df, stderr, parse_vars, norm_vars>>

ProcessCsvStart == \E csv \in Tables \cup {Unreadable} : process_csv_start(csv)

\* the binding loop handing over to the calls after its first row
BindRow_first ==
  LET i == Len(rows_args) + 1
      b == bind_row(sig, df, i)
  IN /\ pc = "bind"
     /\ b.ok
     /\ rows_args' = Append(rows_args, b.kwargs)
     /\ trace' = Append(trace, [op |-> "bind", row |-> i - 1])
     /\ pc' = "compute"
     /\ UNCHANGED <<fn_var, status_var, current_output_df, dialog, stderr, df, sig,
                    results, errors, returned, manual, parse_vars, norm_vars>>

\* lines 321-338: one turn of the loop that builds rows_args
BindRow ==
  LET i == Len(rows_args) + 1
      b == bind_row(sig, df, i)
  IN /\ pc = "bind"
     /\ IF b.ok
        THEN /\ rows_args' = Append(rows_args, b.kwargs)
             /\ trace' = Append(trace, [op |-> "bind", row |-> i - 1])
             /\ pc' = IF i = Len(df.rows) THEN "compute" ELSE "bind"
             /\ dialog' = dialog
        ELSE /\ dialog' = Dialog("Error", "Missing required column", <<b.missing>>, <<>>)
             /\ pc' = "idle"
             /\ UNCHANGED <<rows_args, trace>>
     /\ UNCHANGED <<fn_var, status_var, current_output_df, stderr, df, sig, results,
                    errors, returned, manual, parse_vars, norm_vars>>

\* the compute loop numbering the rows of its messages from 1
InvokeRow_from1 ==
  LET i == Len(results) + 1
  IN /\ pc = "compute"
     /\ \E o \in CallOutcomes(sig, rows_args[i]) :
          /\ returned' = Append(returned, o)
          /\ results' = Append(results, IF o.raised THEN None ELSE o.value)
          /\ errors' = IF o.raised THEN Append(errors, [row |-> i, msg |-> "e"])
                       ELSE errors
     /\ trace' = Append(trace, [op |-> "invoke", row |-> i - 1])
     /\ pc' = IF i = Len(rows_args) THEN "finish" ELSE "compute"
     /\ UNCHANGED <<fn_var, status_var, current_output_df, dialog, stderr, df, sig,
                    rows_args, manual, parse_vars, norm_vars>>

\* the compute loop leaving at the first row that raises
InvokeRow_break ==
  LET i == Len(results) + 1
  IN /\ pc = "compute"
     /\ \E o \in CallOutcomes(sig, rows_args[i]) :
          /\ returned' = Append(returned, o)
          /\ results' = Append(results, IF o.raised THEN None ELSE o.value)
          /\ errors' = IF o.raised THEN Append(errors, [row |-> i - 1, msg |-> "e"])
                       ELSE errors
          /\ pc' = IF i = Len(rows_args) \/ o.raised THEN "finish" ELSE "compute"
     /\ trace' = Append(trace, [op |-> "invoke", row |-> i - 1])
     /\ UNCHANGED <<fn_var, status_var, current_output_df, dialog, stderr, df, sig,
                    rows_args, manual, parse_vars, norm_vars>>

\* lines 343-349: one turn of the loop that calls the target function
InvokeRow ==
  LET i == Len(results) + 1
  IN /\ pc = "compute"
     /\ \E o \in CallOutcomes(sig, rows_args[i]) :
          /\ returned' = Append(returned, o)
          /\ results' = Append(results, IF o.raised THEN None ELSE o.value)
          /\ errors' = IF o.raised THEN Append(errors, [row |-> i - 1, msg |-> "e"])
                       ELSE errors
     /\ trace' = Append(trace, [op |-> "invoke", row |-> i - 1])
     /\ pc' = IF i = Len(rows_args) THEN "finish" ELSE "compute"
     /\ UNCHANGED <<fn_var, status_var, current_output_df, dialog, stderr, df, sig,
                    rows_args, manual, parse_vars, norm_vars>>

\* lines 350-361: status, diagnostics, normalisation and the stored table;
\* a raise of normalize_results leaves the handler before line 360
Finish ==
  LET out_df == normalize_results(results)
  IN /\ pc = "finish"
     /\ status_var' = IF errors # <<>>
                      THEN Status("Completed with errors; see console.", Len(errors))
                      ELSE Status("Completed", 0)
     /\ stderr' = stderr \o errors
     /\ current_output_df' = IF out_df = Raised THEN current_output_df
                             ELSE ConcatCols(df, out_df)
     /\ pc' = "done"
     /\ UNCHANGED <<fn_var, dialog, df, sig, rows_args, results, errors, trace,
                    returned, manual, parse_vars, norm_vars>>

OnFunctionChange == \E fn_name \in TARGET_FUNCTIONS : on_function_change(fn_name)

Init == ParseIdle /\ NormIdle /\ AppIdle

Next ==
  \/ OnFunctionChange
  \/ OnRunSingle
  \/ ProcessCsvStart
  \/ BindRow
  \/ InvokeRow
  \/ Finish

Spec == Init /\ [][Next]_vars

\* ---------------------------------------------------------------- claims
\* the rows of the trace steps of kind op, in trace order
RowsOf(op) ==
  LET steps == SelectSeq(trace, LAMBDA e : e.op = op)
  IN [k \in 1..Len(steps) |-> steps[k].row]

\* 0, 1, .., n-1
UpTo(n) == [k \in 1..n |-> k - 1]

\* the batch got past header validation
Started == pc \in {"bind", "compute", "finish", "done"}

\* C1: per-row failure isolation.  Once a table has passed header validation
\* the binding loop never aborts, the target function is attempted exactly
\* once per row in table order whatever rows raise, the loop ends only when
\* every row has been attempted, a row that raised holds None at its own
\* position of results and a row that returned holds its return value there.
C1_FailureIsolation ==
  /\ dialog.text # "Missing required column"
  /\ Started =>
       /\ RowsOf("invoke") = UpTo(Len(results))
       /\ Len(returned) = Len(results)
       /\ Len(results) <= Len(df.rows)
       /\ \A i \in 1..Len(results) :
            /\ returned[i].raised => results[i] = None
            /\ ~returned[i].raised => results[i] = returned[i].value
       /\ pc = "compute" => Len(results) < Len(df.rows)
       /\ pc \in {"finish", "done"} => Len(results) = Len(df.rows)

\* C1 witness: a finished batch in which a row raised and a later row
\* returned a value that is kept at its position
C1_Witness ==
  /\ pc = "done"
  /\ Len(results) = Len(df.rows)
  /\ \E i \in 1..Len(results), j \in 1..Len(results) :
       /\ i < j
       /\ returned[i].raised /\ results[i] = None
       /\ ~returned[j].raised /\ results[j] = returned[j].value /\ results[j] # None

\* the required parameter names of the signature that are no column of the table
MissingOf(frame, s) ==
  {n \in {"a", "b", "c", "self", "cls"} :
     /\ n \notin {"self", "cls"}
     /\ \E k \in 1..Len(s) : s[k].name = n /\ s[k].required
     /\ \A k \in 1..Len(frame.cols) : frame.cols[k] # n}

HeaderError == dialog.text = "Missing required columns"

\* C2: header validation is fail-fast.  A header error is shown exactly when
\* the table lacks a required column; it lists every missing name once; no row
\* is bound and the function is not called; the step that shows it leaves the
\* stored output table and the status alone.  A batch only proceeds with a
\* table that lacks none.
C2_HeaderFailFast ==
  /\ [](/\ HeaderError =>
             /\ MissingOf(df, sig) # {}
             /\ SeqToSet(dialog.names) = MissingOf(df, sig)
             /\ Len(dialog.names) = Cardinality(MissingOf(df, sig))
             /\ rows_args = <<>> /\ results = <<>> /\ trace = <<>> /\ returned = <<>>
             /\ pc = "idle"
        /\ Started => MissingOf(df, sig) = {} /\ ~HeaderError
        /\ (sig # <<>> /\ MissingOf(df, sig) # {}) => HeaderError)
  /\ [][HeaderError' =>
          /\ current_output_df' = current_output_df
          /\ status_var' = status_var
          /\ stderr' = stderr]_vars

\* C2 witness: a header error that names two missing columns, shown while an
\* output table of an earlier run is stored
C2_Witness ==
  /\ HeaderError
  /\ Len(dialog.names) = 2
  /\ current_output_df # None

Normalized == norm_out # Pending /\ norm_out # Raised

\* every table among the results is the table of one row
OneRowTables == \A i \in 1..Len(norm_in) : norm_in[i].kind = "frame" => Len(norm_in[i].rows) = 1

\* C3: normalize_results never discards or reorders rows: the table it
\* returns has one row per result (a table result counting as its one row),
\* every row is as wide as the columns, and under the scalar strategy row i
\* holds result i.
C3_RowPerResult ==
  (Normalized /\ OneRowTables) =>
    /\ Len(norm_out.rows) = Len(norm_in)
    /\ \A i \in 1..Len(norm_out.rows) : Len(norm_out.rows[i]) = Len(norm_out.cols)
    /\ norm_out.cols = <<"result">> =>
         \A i \in 1..Len(norm_in) : norm_out.rows[i] = <<norm_in[i]>>

\* the first result that is not None, None when all are
RECURSIVE FirstNonAbsent(_)
FirstNonAbsent(rs) ==
  IF rs = <<>> THEN None
  ELSE IF Head(rs) # None THEN Head(rs)
  ELSE FirstNonAbsent(Tail(rs))

\* C6: the strategy follows the shape of the first non-absent result: when
\* that result is a tuple the columns are result_0.., when it is a mapping or
\* a table the columns are its keys or columns, and only when it is a scalar
\* (or every result is absent) is the single column "result" used.
C6_FirstNonAbsentDecides ==
  (norm_out # Pending /\ norm_in # <<>>) =>
    LET f == FirstNonAbsent(norm_in)
    IN /\ f.kind = "tuple" =>
            /\ norm_out # Raised
            /\ norm_out.cols = ResultCols(MaxSeqLen(norm_in))
       /\ f.kind \in {"dict", "frame"} =>
            (norm_out # Raised => norm_out.cols # <<"result">>)
       /\ f.kind \in {"none", "int"} =>
            /\ norm_out # Raised
            /\ norm_out.cols = <<"result">>

\* a raw value that is missing or empty
Blank(cell) == cell = NoText \/ strip(cell) = <<>>

\* row i of the table holds a blank cell in the column of parameter p
BlankCell(i, p) == InSeq(df.cols, p.name) /\ Blank(CellOf(df, i, p.name))

\* C4: a blank cell under a required parameter aborts the batch: the target
\* function is called for no row, the batch does not run to its end and the
\* error names the column.
C4_BlankRequiredAborts ==
  (Started /\ \E i \in 1..Len(df.rows), k \in 1..Len(sig) :
                 ~IsImplicit(sig[k].name) /\ sig[k].required /\ BlankCell(i, sig[k])) =>
    /\ returned = <<>>
    /\ pc \in {"bind"}

\* C5: an optional parameter binds its declared default whenever its value is
\* absent or blank, in batch mode (no column, or a blank cell) as in manual
\* mode (an empty entry).
C5_OptionalDefault ==
  /\ \A i \in 1..Len(rows_args), k \in 1..Len(sig) :
       (~IsImplicit(sig[k].name) /\ ~sig[k].required
          /\ (~InSeq(df.cols, sig[k].name) \/ BlankCell(i, sig[k]))) =>
         ArgOf(rows_args[i], sig[k].name) = sig[k].default
  /\ (manual.ran /\ manual.ok) =>
       \A k \in 1..Len(Signature(fn_var)) :
         LET p == Signature(fn_var)[k]
         IN (p.name \in DOMAIN manual.entries /\ ~p.required
               /\ Blank(manual.entries[p.name])) =>
              ArgOf(manual.kwargs, p.name) = p.default

\* the text parse_value works on, and whether the raw value is blank
Stripped == IF text = NoText THEN <<>> ELSE strip(text)
Parsed == parsed # Pending
Declared == annotation # "empty"

\* C7 as claimed: with a declared type and a non-blank text the value comes
\* from the declared-type rule alone (its parse, or the text itself when that
\* fails) and neither the boolean-literal nor the numeric heuristic is
\* applied; without a declared type the heuristics are applied.
C7_DeclaredAlwaysOverrides ==
  (Parsed /\ Stripped # <<>>) =>
    /\ Declared => parsed.path \in {"declared", "heuristic_str"}
    /\ ~Declared => parsed.path \in {"heuristic_bool", "heuristic_num", "heuristic_str"}

\* what the untyped heuristics give for a stripped text: the boolean literal,
\* else the number (a float when the text has a point or an exponent mark,
\* an integer otherwise), else the text
UntypedValue(s) ==
  IF lower(s) = <<"t","r","u","e">> THEN BoolV(TRUE)
  ELSE IF lower(s) = <<"f","a","l","s","e">> THEN BoolV(FALSE)
  ELSE IF (Contains(s, ".") \/ Contains(s, "e") \/ Contains(s, "E")) /\ FloatParses(s)
  THEN FloatOf(s)
  ELSE IF ~(Contains(s, ".") \/ Contains(s, "e") \/ Contains(s, "E")) /\ IntParses(s)
  THEN IntV(IntOf(s))
  ELSE StrV(s)

\* C7 as amended: a declared type overrides the heuristics whenever its rule
\* can parse the text (always for bool and str, for int and float when the
\* text is an integer or a float literal); a declared int or float whose parse
\* fails falls back to the heuristics, and so does an undeclared type, in the
\* order boolean literal, number, text.
C7_DeclaredOverridesWhenItParses ==
  (Parsed /\ Stripped # <<>>) =>
    /\ annotation = "str" => parsed.value = StrV(Stripped) /\ parsed.path = "declared"
    /\ annotation = "bool" =>
         /\ parsed.path = "declared"
         /\ parsed.value = BoolV(lower(Stripped) \notin Falsy)
    /\ (annotation = "int" /\ IntParses(Stripped)) =>
         parsed.value = IntV(IntOf(Stripped)) /\ parsed.path = "declared"
    /\ (annotation = "float" /\ FloatParses(Stripped)) =>
         parsed.value = FloatOf(Stripped) /\ parsed.path = "declared"
    /\ (\/ annotation = "empty"
        \/ annotation = "int" /\ ~IntParses(Stripped)
        \/ annotation = "float" /\ ~FloatParses(Stripped)) =>
         /\ parsed.value = UntypedValue(Stripped)
         /\ parsed.path # "declared"

\* C7 witness: a declared int whose parse failed and a heuristic that then
\* decided the value
C7_Witness ==
  /\ Parsed
  /\ annotation = "int"
  /\ parsed.path \in {"heuristic_bool", "heuristic_num"}

\* no rule parsed the text: the value is the string fallback
Unparsed == parsed.path = "heuristic_str"

\* C8 as claimed: parse_value returns for every raw value and type, gives
\* None for a missing or blank raw value whatever the type, and returns a
\* text no rule can parse as the original string.
C8_TotalOriginalString ==
  Parsed =>
    /\ parsed.value.kind \in {"none", "int", "float", "bool", "str"}
    /\ Stripped = <<>> => parsed.value = None
    /\ Unparsed => parsed.value = StrV(text)

\* C8 as amended: as claimed, but the string returned for a text no rule can
\* parse is the original text with leading and trailing whitespace stripped;
\* a non-blank text never gives None.
C8_TotalStrippedString ==
  Parsed =>
    /\ parsed.value.kind \in {"none", "int", "float", "bool", "str"}
    /\ (text = NoText \/ \A k \in 1..Len(text) : text[k] = " ") <=> parsed.value = None
    /\ Unparsed =>
         /\ parsed.value.kind = "str"
         /\ \E a \in 0..Len(text), b \in 0..Len(text) :
              /\ a + b + Len(parsed.value.s) = Len(text)
              /\ parsed.value.s = SubSeq(text, a + 1, Len(text) - b)
              /\ \A k \in (1..a) \cup ((Len(text) - b + 1)..Len(text)) : text[k] = " "
              /\ parsed.value.s[1] # " " /\ parsed.value.s[Len(parsed.value.s)] # " "

\* C8 witness: a padded text no rule can parse, returned without its padding
C8_Witness ==
  /\ Parsed
  /\ Unparsed
  /\ text # NoText
  /\ Len(parsed.value.s) < Len(text)

\* the indices (from 0) of the calls that raised, in call order
RECURSIVE RaisedRows(_)
RaisedRows(rets) ==
  IF rets = <<>> THEN <<>>
  ELSE LET before == RaisedRows(SubSeq(rets, 1, Len(rets) - 1))
       IN IF rets[Len(rets)].raised THEN Append(before, Len(rets) - 1) ELSE before

\* C9: at the end of a batch there is one message per row that raised, each
\* naming that row's zero-based index, in ascending row order, all of them
\* printed; the status is the plain "Completed" exactly when no row raised
\* and otherwise carries the number of failed rows.
C9_Diagnostics ==
  pc = "done" =>
    /\ Len(errors) = Len(RaisedRows(returned))
    /\ \A k \in 1..Len(errors) : errors[k].row = RaisedRows(returned)[k]
    /\ \A k \in 1..(Len(errors) - 1) : errors[k].row < errors[k + 1].row
    /\ stderr = errors
    /\ status_var.text = "Completed" <=> RaisedRows(returned) = <<>>
    /\ RaisedRows(returned) # <<>> =>
         /\ status_var.text = "Completed with errors; see console."
         /\ status_var.n = Len(RaisedRows(returned))

\* C9 witness: a finished batch whose first row returned and whose second
\* row raised, reported as row 1
C9_Witness ==
  /\ pc = "done"
  /\ Len(returned) = 2
  /\ ~returned[1].raised /\ returned[2].raised
  /\ Len(errors) = 1 /\ errors[1].row = 1
  /\ status_var.n = 1

\* C10 as claimed: bind(row i) is immediately followed by invoke(row i), so
\* the next row is bound only after the call for this one has finished.
C10_RowAtATime ==
  \A k \in 1..Len(trace) :
    (trace[k].op = "bind" /\ k < Len(trace)) =>
      trace[k + 1] = [op |-> "invoke", row |-> trace[k].row]

\* C10 as amended: rows are bound one at a time in table order and every row
\* is bound before the first call; the calls then run one at a time in table
\* order, each to its end before the next.
C10_BindAllThenInvoke ==
  /\ trace = [k \in 1..Len(rows_args) |-> [op |-> "bind", row |-> k - 1]]
             \o [k \in 1..Len(results) |-> [op |-> "invoke", row |-> k - 1]]
  /\ Len(rows_args) <= Len(df.rows)
  /\ Len(results) <= Len(rows_args)
  /\ (results # <<>> \/ pc \in {"compute", "finish", "done"}) => Len(rows_args) = Len(df.rows)
  /\ pc = "bind" => results = <<>>

\* C10 witness: a finished batch of two or more rows
C10_Witness ==
  /\ pc = "done"
  /\ Len(df.rows) >= 2
  /\ Len(trace) = 2 * Len(df.rows)

\* the sequence strategy is the one chosen: the first result is a list or tuple
SequenceChosen == norm_in # <<>> /\ norm_in[1].kind = "tuple"

\* the length a result counts with: its own when it is a sequence, else 1
CountedLen(r) == IF r.kind = "tuple" THEN Len(r.items) ELSE 1

\* the largest counted length among the results
LongestCounted ==
  CHOOSE m \in {CountedLen(norm_in[i]) : i \in 1..Len(norm_in)} :
    \A i \in 1..Len(norm_in) : CountedLen(norm_in[i]) <= m

\* C11: under the sequence strategy the table has exactly L columns named
\* result_0 .. result_{L-1}, L the largest length among the results with a
\* non-sequence counting as 1; row i holds the items of a sequence result in
\* order and then None up to L, and a result that is no sequence sits in
\* result_0 followed by None; normalisation does not raise.
C11_SequenceColumns ==
  (norm_out # Pending /\ SequenceChosen) =>
    /\ norm_out # Raised
    /\ Len(norm_out.cols) = LongestCounted
    /\ \A j \in 1..Len(norm_out.cols) : norm_out.cols[j] = ResultNames[j]
    /\ Len(norm_out.rows) = Len(norm_in)
    /\ \A i \in 1..Len(norm_in) :
         /\ Len(norm_out.rows[i]) = LongestCounted
         /\ \A j \in 1..LongestCounted :
              norm_out.rows[i][j] =
                IF norm_in[i].kind = "tuple"
                THEN IF j <= Len(norm_in[i].items) THEN norm_in[i].items[j] ELSE None
                ELSE IF j = 1 THEN norm_in[i] ELSE None

\* C11 witness: a pair first, then a shorter tuple padded with None and a
\* result that is no sequence placed in result_0
C11_Witness ==
  /\ Normalized
  /\ SequenceChosen
  /\ norm_out.cols = <<"result_0", "result_1">>
  /\ \E i \in 2..Len(norm_in), k \in 2..Len(norm_in) :
       /\ norm_in[i] = Tuple(<<IntV(3)>>)
       /\ norm_out.rows[i] = <<IntV(3), None>>
       /\ norm_in[k].kind \in {"int", "dict"}
       /\ norm_out.rows[k] = <<norm_in[k], None>>

====
